---- MODULE Spec2Model ----
(***************************************************************************)
(* Model of the nRF DFU session driver of nrfdfu-rs (src/src/lib.rs):      *)
(* run(), BootloaderConnection::new and the two transfers send_dat and     *)
(* send_bin, over a serial stream whose other end (the bootloader) and     *)
(* whose failures are the environment.                                     *)
(***************************************************************************)
EXTENDS Integers, Sequences, FiniteSets, TLC

(***************************************************************************)
(* Bounds of the model.                                                    *)
(***************************************************************************)
MaxDatLen == 1
MaxBinLen == 1

\* byte values of the archive's files: the frame terminator, which the
\* framing escapes (the padding adds 255 to the image)
Bytes == {192}
\* MTU values the device reports (u16)
Mtus == {0, 3, 5, 7, 64}
\* max_size values the device reports in its Select(Data) response (u32)
MaxSizes == {0, 1, 3, 4096}
\* protocol versions the device reports (u8)
Versions == {1, 2}

(***************************************************************************)
(* Program constants.                                                      *)
(***************************************************************************)
PROTOCOL_VERSION == 1
PAD_BYTE == 255
U16 == 65536

\* SLIP framing bytes and the opcodes of the message table (slip.rs and
\* messages.rs)
SLIP_END == 192
SLIP_ESC == 219
SLIP_ESC_END == 220
SLIP_ESC_ESC == 221
WRITE_OPCODE == 8
RESPONSE == "Response"
SUCCESS == "Success"

Min(a, b) == IF a < b THEN a ELSE b

SeqsUpTo(S, n) == UNION {[1..k -> S] : k \in 0..n}

(***************************************************************************)
(* 32-bit words are pairs <<hi, lo>> of 16-bit halves.                     *)
(***************************************************************************)
\* exclusive or of the low n bits of a and b
XorN[a \in Nat, b \in Nat, n \in Nat] ==
    IF n = 0 THEN 0
    ELSE ((a + b) % 2) + 2 * XorN[a \div 2, b \div 2, n - 1]

\* exclusive or of bytes and of 16-bit halves, by a table of 4-bit digits
Xor4 == [a \in 0..15 |-> [b \in 0..15 |-> XorN[a, b, 4]]]
Xor8(a, b) == 16 * Xor4[a \div 16][b \div 16] + Xor4[a % 16][b % 16]
Xor16(a, b) == 256 * Xor8(a \div 256, b \div 256) + Xor8(a % 256, b % 256)

Xor32(x, y) == <<Xor16(x[1], y[1]), Xor16(x[2], y[2])>>
Not32(x) == <<65535 - x[1], 65535 - x[2]>>
Shr32(x, k) == <<x[1] \div (2 ^ k), (x[2] \div (2 ^ k)) + (x[1] % (2 ^ k)) * (2 ^ (16 - k))>>
Zero32 == <<0, 0>>

\* reflected CRC-32 polynomial 0xEDB88320
CRC_POLY == <<60856, 33568>>

Word32 == (0..65535) \X (0..65535)

\* n rounds of the bit-wise algorithm on the register c
CrcRounds[c \in Word32, n \in Nat] ==
    IF n = 0 THEN c
    ELSE CrcRounds[IF c[2] % 2 = 1 THEN Xor32(Shr32(c, 1), CRC_POLY) ELSE Shr32(c, 1), n - 1]

CrcTable == [i \in 0..255 |-> CrcRounds[<<0, i>>, 8]]

\* the register after the bytes of data from the i-th on
CrcUpdate[c \in Word32, data \in Seq(0..255), i \in Nat] ==
    IF i > Len(data) THEN c
    ELSE CrcUpdate[Xor32(CrcTable[Xor8(c[2] % 256, data[i])], Shr32(c, 8)), data, i + 1]

\* crc32fast::Hasher::new_with_initial(initial); write(data); finalize()
Crc32(data, initial) == Not32(CrcUpdate[Not32(initial), data, 1])

(***************************************************************************)
(* State.                                                                  *)
(***************************************************************************)
VARIABLES
    pc,              \* position of run() in its sequence of calls
    err,             \* "none", or the error run() returned / "panic"
    log,             \* what happened on the serial stream, in order
    zip,             \* the archive: [dat, bin] as read_zip_file returns them
    dat,             \* run(): dat
    bin,             \* run(): bin (padded in place)
    mtu,             \* BootloaderConnection.mtu
    max_size,        \* send_bin: max_size
    prev_chunk_crc,  \* send_bin: prev_chunk_crc
    chunk_idx,       \* send_bin: index of the chunk the for loop is at
    build,           \* whether the build checks arithmetic overflow
    device           \* the port and the device on it: "any", or "cooperative"

vars == <<pc, err, log, zip, dat, bin, mtu, max_size, prev_chunk_crc, chunk_idx, build, device>>

(***************************************************************************)
(* Requests, stream events and the device's answers.                       *)
(***************************************************************************)
Request(op, kind, size, data) == [op |-> op, kind |-> kind, size |-> size, data |-> data]

ProtocolVersionRequest == Request("ProtocolVersion", "-", 0, <<>>)
HardwareVersionRequest == Request("HardwareVersion", "-", 0, <<>>)
GetMtuRequest == Request("GetMtu", "-", 0, <<>>)
SetPrnRequest(n) == Request("SetPrn", "-", n, <<>>)
SelectRequest(kind) == Request("Select", kind, 0, <<>>)
CreateObjectRequest(kind, size) == Request("Create", kind, size, <<>>)
WriteRequest(chunk) == Request("Write", "-", 0, chunk)
CrcRequest == Request("GetCrc", "-", 0, <<>>)
ExecuteRequest == Request("Execute", "-", 0, <<>>)

\* the offset and crc fields of the answers of a device that holds no part
\* of an object
Fresh == [offset |-> 0, crc |-> Zero32]

\* a request written to the stream and flushed
ReqEv(req) == [ev |-> "req", op |-> req.op, kind |-> req.kind, size |-> req.size,
               data |-> req.data, out |-> "-", val |-> 0, echo |-> "-", resume |-> Fresh]
\* a write or flush of the stream that failed
WFailEv(req) == [ev |-> "wfail", op |-> req.op, kind |-> req.kind, size |-> req.size,
                 data |-> req.data, out |-> "io", val |-> 0, echo |-> "-", resume |-> Fresh]
\* one decode_frame on the stream, for the request op, what came of it, and
\* the echoed opcode and the offset and crc fields of the frame f it read
RespEv(req, out, val, f) == [ev |-> "resp", op |-> req.op, kind |-> req.kind, size |-> req.size,
                             data |-> <<>>, out |-> out, val |-> val,
                             echo |-> f.echo, resume |-> f.resume]

Frame(head, echo, code, val, resume) ==
    [head |-> head, echo |-> echo, code |-> code, val |-> val, resume |-> resume]
NoFrame(vals) == Frame("-", "-", "-", CHOOSE x \in vals : TRUE, Fresh)

\* the offset and crc fields of the answers to Select, and the offset field of
\* the answers to GetCrc, that a device reports
ResumeFields(op) ==
    IF device = "cooperative" /\ op = "Select"
    THEN {Fresh, [offset |-> 1, crc |-> <<0, 1>>]}
    ELSE IF device = "cooperative" /\ op = "GetCrc"
    THEN {Fresh, [offset |-> 1, crc |-> Zero32]}
    ELSE {Fresh}

\* what a cooperative device answers: Success to the request it was sent,
\* the supported version, an MTU and a max_size a transfer can use
Cooperative(op, kind, f) ==
    /\ f.head = RESPONSE /\ f.echo = op /\ f.code = SUCCESS
    /\ op = "ProtocolVersion" => f.val = PROTOCOL_VERSION
    /\ op = "GetMtu" => f.val >= 5
    /\ (op = "Select" /\ kind = "Data") => f.val >= 1

\* the frames a device sends in answer to op: a success carrying one of
\* vals, a response to another opcode, a rejection
Frames(op, vals) ==
    {Frame(RESPONSE, op, SUCCESS, v, r) : v \in vals, r \in ResumeFields(op)}
    \cup {Frame(RESPONSE, IF op = "Execute" THEN "GetCrc" ELSE "Execute", SUCCESS, v, Fresh) :
             v \in {CHOOSE x \in vals : TRUE}}
    \cup {Frame(RESPONSE, op, "InvalidObject", v, Fresh) : v \in {CHOOSE x \in vals : TRUE}}

\* what the stream does during one request_response
Behaviours(req, vals) ==
    IF device = "cooperative"
    THEN {[w |-> TRUE, rd |-> "frame", frame |-> f] :
             f \in {g \in Frames(req.op, vals) : Cooperative(req.op, req.kind, g)}}
    ELSE {[w |-> FALSE, rd |-> "-", frame |-> NoFrame(vals)]}
         \cup {[w |-> TRUE, rd |-> r, frame |-> NoFrame(vals)] : r \in {"timeout", "framing"}}
         \cup {[w |-> TRUE, rd |-> "frame", frame |-> f] : f \in Frames(req.op, vals)}

Ok(v) == [ok |-> TRUE, err |-> "none", val |-> v]
Err(e) == [ok |-> FALSE, err |-> e, val |-> 0]

\* messages.rs: parse_response
parse_response(op, f) ==
    IF f.head # RESPONSE THEN Err("malformed")
    ELSE IF f.echo # op THEN Err("desync")
    ELSE IF f.code # SUCCESS THEN Err("rejected")
    ELSE Ok(f.val)

\* BootloaderConnection::request: the events of one send
request(req, wok) == IF wok THEN <<ReqEv(req)>> ELSE <<WFailEv(req)>>

\* a request_response that decodes the frame as a response to whatever
\* opcode the frame echoes
request_responseAnyKind(req, b) ==
    IF ~b.w THEN [res |-> Err("io"), resume |-> Fresh, events |-> request(req, FALSE)]
    ELSE IF b.rd # "frame"
    THEN [res |-> Err(b.rd), resume |-> Fresh,
          events |-> request(req, TRUE) \o <<RespEv(req, b.rd, 0, b.frame)>>]
    ELSE LET p == parse_response(b.frame.echo, b.frame)
         IN [res |-> p, resume |-> b.frame.resume,
             events |-> request(req, TRUE)
                        \o <<RespEv(req, IF p.ok THEN "ok" ELSE p.err, p.val, b.frame)>>]

\* BootloaderConnection::request_response: the result (with the offset and
\* crc fields of the response) and the events
request_response(req, b) ==
    IF ~b.w THEN [res |-> Err("io"), resume |-> Fresh, events |-> request(req, FALSE)]
    ELSE IF b.rd # "frame"
    THEN [res |-> Err(b.rd), resume |-> Fresh,
          events |-> request(req, TRUE) \o <<RespEv(req, b.rd, 0, b.frame)>>]
    ELSE LET p == parse_response(req.op, b.frame)
         IN [res |-> p, resume |-> b.frame.resume,
             events |-> request(req, TRUE)
                        \o <<RespEv(req, IF p.ok THEN "ok" ELSE p.err, p.val, b.frame)>>]

\* the type of the error value behind Box<dyn Error> for each cause of
\* failure: request_response turns every error of decode_frame into a String
ErrorType(e) ==
    IF e \in {"timeout", "framing"} THEN "String"
    ELSE IF e \in {"io", "version", "crc"} THEN "String"
    ELSE e

(***************************************************************************)
(* Pure parts of the session.                                              *)
(***************************************************************************)
\* chunks that are one byte longer than asked for
RECURSIVE ChunksOversize(_, _)
ChunksOversize(data, n) ==
    IF Len(data) = 0 THEN <<>>
    ELSE <<SubSeq(data, 1, Min(n + 1, Len(data)))>>
         \o ChunksOversize(SubSeq(data, Min(n + 1, Len(data)) + 1, Len(data)), n)

\* slice::chunks(n), n > 0
RECURSIVE Chunks(_, _)
Chunks(data, n) ==
    IF Len(data) = 0 THEN <<>>
    ELSE <<SubSeq(data, 1, Min(n, Len(data)))>>
         \o Chunks(SubSeq(data, Min(n, Len(data)) + 1, Len(data)), n)

\* a padding with zero bytes
RECURSIVE PadImageZero(_)
PadImageZero(image) == IF Len(image) % 4 = 0 THEN image ELSE PadImageZero(Append(image, 0))

\* run(): pad the image with 0xFF to a multiple of 4 bytes
RECURSIVE PadImage(_)
PadImage(image) == IF Len(image) % 4 = 0 THEN image ELSE PadImage(Append(image, PAD_BYTE))

\* a gate that lets every version through
VersionSupportedAny(v) == v = v

\* new(): the version gate
VersionSupported(v) == v = PROTOCOL_VERSION

\* a fragment size that is not halved for the escaping
MaxChunkSizeUnhalved(m) == (((m - 1) % U16) - 1) % U16

\* a fragment size that leaves no room for the opcode byte
MaxChunkSizeNoOpcode(m) == (((m - 1) % U16) \div 2) % U16

\* stream_object_data: (self.mtu - 1) / 2 - 1 in u16, wrapping
MaxChunkSize(m) == ((((m - 1) % U16) \div 2) - 1) % U16
\* the u16 subtractions that overflow
MtuOverflows(m) == m - 1 < 0 \/ ((m - 1) \div 2) - 1 < 0

\* a digest that is not seeded with the previous chunk's CRC
ExpectedCrcUnseeded(data, initial) == Crc32(data, Zero32)

\* check_crc: the CRC the device must report
ExpectedCrc(data, initial) == Crc32(data, initial)
\* a check that does not compare
check_crcUnchecked(data, received_crc, initial) == Ok(ExpectedCrc(data, initial))

check_crc(data, received_crc, initial) ==
    IF ExpectedCrc(data, initial) = received_crc
    THEN Ok(ExpectedCrc(data, initial))
    ELSE Err("crc")

\* slip.rs: encode_frame
RECURSIVE encode_bytes(_)
encode_bytes(buf) ==
    IF Len(buf) = 0 THEN <<>>
    ELSE (IF Head(buf) = SLIP_END THEN <<SLIP_ESC, SLIP_ESC_END>>
          ELSE IF Head(buf) = SLIP_ESC THEN <<SLIP_ESC, SLIP_ESC_ESC>>
          ELSE <<Head(buf)>>) \o encode_bytes(Tail(buf))
encode_frame(buf) == Append(encode_bytes(buf), SLIP_END)

\* the order of the calls of run(), send_dat and send_bin
RunSequence ==
    [start |-> "new_version", new_version |-> "new_mtu", new_mtu |-> "set_prn",
     set_prn |-> "run_select", run_select |-> "run_version", run_version |-> "run_hw",
     run_hw |-> "dat_select", dat_select |-> "dat_create", dat_create |-> "dat_stream",
     dat_stream |-> "dat_crc", dat_crc |-> "dat_execute", dat_execute |-> "bin_select",
     bin_create |-> "bin_stream", bin_stream |-> "bin_crc", bin_crc |-> "bin_execute"]
\* send_bin without get_crc and check_crc
FlowNoDataCrc(p) == IF p = "bin_stream" THEN "bin_execute" ELSE RunSequence[p]
\* run() without send_dat
FlowNoSendDat(p) == IF p = "run_hw" THEN "bin_select" ELSE RunSequence[p]
\* run() without set_receipt_notification
FlowNoSetPrn(p) == IF p = "new_mtu" THEN "run_select" ELSE RunSequence[p]
\* run() without fetch_hardware_version
FlowNoHwVersion(p) == IF p = "run_version" THEN "dat_select" ELSE RunSequence[p]
Flow(p) == RunSequence[p]

\* a for loop that ends after the first chunk
ForChunkOnce(i, n) == IF i <= Min(n, 1) THEN "bin_create" ELSE "done"
\* send_bin: the for loop over image.chunks(max_size), at chunk i of n
ForChunk(i, n) == IF i <= n THEN "bin_create" ELSE "done"

\* the CRC values a device reports where the session expects c
\* and where it has received the bytes sent of an object: the cooperative
\* device reports their CRC32
DeviceCrcs(c, sent) ==
    IF device = "cooperative" THEN {Crc32(sent, Zero32)}
    ELSE {c, Zero32, <<c[1], (c[2] + 1) % U16>>}

\* how many of n fragments the port takes before a write fails
Written(n) == IF device = "cooperative" THEN {n} ELSE 0..n

\* a send_bin that takes up the CRC the device reports for the object
InitialCrcResumed(resume) == resume.crc
\* send_bin: let mut prev_chunk_crc: u32 = 0
InitialCrc(resume) == Zero32

(***************************************************************************)
(* Initial state: the archive holds any init packet and any image.         *)
(***************************************************************************)
InitFor(d) ==
    /\ device = d
    /\ pc = "start"
    /\ err = "none"
    /\ log = <<>>
    /\ zip \in [dat : SeqsUpTo(Bytes, MaxDatLen), bin : SeqsUpTo(Bytes, MaxBinLen)]
    /\ dat = <<>>
    /\ bin = <<>>
    /\ mtu = 0
    /\ max_size = 0
    /\ prev_chunk_crc = Zero32
    /\ chunk_idx = 0
    /\ build = "any"

\* a session on any port, with any device
Init == InitFor("any")

\* a session on a working port with a cooperative device on it
InitDevice == InitFor("cooperative")

Goto(p) == pc' = p /\ err' = err
Fail(e) == pc' = "done" /\ err' = e

\* one request_response whose answer carries nothing the session keeps
Exchange(p, req, vals) ==
    /\ pc = p
    /\ \E b \in Behaviours(req, vals) :
         LET r == request_response(req, b)
         IN /\ log' = log \o r.events
            /\ IF r.res.ok THEN Goto(Flow(p)) ELSE Fail(r.res.err)

\* the chunk send_bin is at
CurChunk == Chunks(bin, max_size)[chunk_idx]

\* the chunks of the image streamed so far, the one send_bin is at included
SentChunks == SubSeq(bin, 1, Min(Len(bin), chunk_idx * max_size))

(***************************************************************************)
(* run(), up to the connection.                                            *)
(***************************************************************************)
\* run(): read_zip_file and write_data_terminal_ready
Start ==
    /\ pc = "start"
    /\ \/ Goto(Flow("start")) /\ dat' = zip.dat /\ bin' = zip.bin
       \/ device = "any" /\ Fail("zip") /\ UNCHANGED <<dat, bin>>
       \/ device = "any" /\ Fail("dtr") /\ dat' = zip.dat /\ bin' = zip.bin
    /\ UNCHANGED <<log, zip, mtu, max_size, prev_chunk_crc, chunk_idx, build, device>>

\* new(): fetch_protocol_version and the version gate
NewFetchProtocolVersion ==
    /\ pc = "new_version"
    /\ \E b \in Behaviours(ProtocolVersionRequest, Versions) :
         LET r == request_response(ProtocolVersionRequest, b)
         IN /\ log' = log \o r.events
            /\ IF ~r.res.ok THEN Fail(r.res.err)
               ELSE IF ~VersionSupported(r.res.val) THEN Fail("version")
               ELSE Goto(Flow("new_version"))
    /\ UNCHANGED <<zip, dat, bin, mtu, max_size, prev_chunk_crc, chunk_idx, build, device>>

\* new(): fetch_mtu
fetch_mtu ==
    /\ pc = "new_mtu"
    /\ \E b \in Behaviours(GetMtuRequest, Mtus) :
         LET r == request_response(GetMtuRequest, b)
         IN /\ log' = log \o r.events
            /\ IF r.res.ok
               THEN Goto(Flow("new_mtu")) /\ mtu' = r.res.val
               ELSE Fail(r.res.err) /\ mtu' = mtu
    /\ UNCHANGED <<zip, dat, bin, max_size, prev_chunk_crc, chunk_idx, build, device>>

\* run(): conn.set_receipt_notification(0)?
set_receipt_notification ==
    /\ Exchange("set_prn", SetPrnRequest(0), {0})
    /\ UNCHANGED <<zip, dat, bin, mtu, max_size, prev_chunk_crc, chunk_idx, build, device>>

\* run(): let obj_select = conn.select_object_command(); the result is
\* logged, not propagated
RunSelectObjectCommand ==
    /\ pc = "run_select"
    /\ \E b \in Behaviours(SelectRequest("Command"), {256}) :
         LET r == request_response(SelectRequest("Command"), b)
         IN /\ log' = log \o r.events
            /\ Goto(Flow("run_select"))
    /\ UNCHANGED <<zip, dat, bin, mtu, max_size, prev_chunk_crc, chunk_idx, build, device>>

\* run(): conn.fetch_protocol_version()?
RunFetchProtocolVersion ==
    /\ Exchange("run_version", ProtocolVersionRequest, Versions)
    /\ UNCHANGED <<zip, dat, bin, mtu, max_size, prev_chunk_crc, chunk_idx, build, device>>

\* run(): conn.fetch_hardware_version()? and the padding of the image
fetch_hardware_version ==
    /\ Exchange("run_hw", HardwareVersionRequest, {52840})
    /\ bin' = IF pc' = "done" THEN bin ELSE PadImage(bin)
    /\ UNCHANGED <<zip, dat, mtu, max_size, prev_chunk_crc, chunk_idx, build, device>>

(***************************************************************************)
(* stream_object_data, for send_dat and send_bin.                          *)
(***************************************************************************)
\* a loop that writes the first fragment every time
StreamEventsFirstOnly(frs, k) ==
    [i \in 1..k |-> ReqEv(WriteRequest(frs[1]))]
    \o (IF k < Len(frs) THEN <<WFailEv(WriteRequest(frs[k + 1]))>> ELSE <<>>)

\* the events of the first k fragments written, and of the failure of
\* fragment k + 1 when there is one
StreamEvents(frs, k) ==
    [i \in 1..k |-> ReqEv(WriteRequest(frs[i]))]
    \o (IF k < Len(frs) THEN <<WFailEv(WriteRequest(frs[k + 1]))>> ELSE <<>>)

stream_object_data(p, data) ==
    /\ pc = p
    /\ \/ \* the subtraction overflows and the build checks it
          /\ MtuOverflows(mtu) /\ build \in {"any", "checked"}
          /\ build' = "checked"
          /\ Fail("panic")
          /\ log' = log
       \/ \* chunks(0) panics
          /\ ~MtuOverflows(mtu) /\ MaxChunkSize(mtu) = 0
          /\ build' = build
          /\ Fail("panic")
          /\ log' = log
       \/ /\ MtuOverflows(mtu) => build \in {"any", "wrapping"}
          /\ MaxChunkSize(mtu) > 0
          /\ build' = IF MtuOverflows(mtu) THEN "wrapping" ELSE build
          /\ LET frs == Chunks(data, MaxChunkSize(mtu))
             IN \E k \in Written(Len(frs)) :
                  /\ log' = log \o StreamEvents(frs, k)
                  /\ IF k = Len(frs) THEN Goto(Flow(p)) ELSE Fail("io")

(***************************************************************************)
(* send_dat.                                                               *)
(***************************************************************************)
SendDatSelect ==
    /\ Exchange("dat_select", SelectRequest("Command"), {256})
    /\ UNCHANGED <<zip, dat, bin, mtu, max_size, prev_chunk_crc, chunk_idx, build, device>>

\* a create_command_object whose result is not propagated
create_command_objectUnchecked ==
    /\ pc = "dat_create"
    /\ \E b \in Behaviours(CreateObjectRequest("Command", Len(dat)), {0}) :
         LET r == request_response(CreateObjectRequest("Command", Len(dat)), b)
         IN /\ log' = log \o r.events
            /\ Goto(Flow("dat_create"))
    /\ UNCHANGED <<zip, dat, bin, mtu, max_size, prev_chunk_crc, chunk_idx, build, device>>

\* send_dat: self.create_command_object(data.len())?
create_command_object ==
    /\ Exchange("dat_create", CreateObjectRequest("Command", Len(dat)), {0})
    /\ UNCHANGED <<zip, dat, bin, mtu, max_size, prev_chunk_crc, chunk_idx, build, device>>

SendDatStream ==
    /\ stream_object_data("dat_stream", dat)
    /\ UNCHANGED <<zip, dat, bin, mtu, max_size, prev_chunk_crc, chunk_idx, device>>

\* send_dat: get_crc and check_crc(data, received_crc, 0)
SendDatCrc ==
    /\ pc = "dat_crc"
    /\ \E b \in Behaviours(CrcRequest, DeviceCrcs(ExpectedCrc(dat, Zero32), dat)) :
         LET r == request_response(CrcRequest, b)
         IN /\ log' = log \o r.events
            /\ IF ~r.res.ok THEN Fail(r.res.err)
               ELSE IF ~check_crc(dat, r.res.val, Zero32).ok THEN Fail("crc")
               ELSE Goto(Flow("dat_crc"))
    /\ UNCHANGED <<zip, dat, bin, mtu, max_size, prev_chunk_crc, chunk_idx, build, device>>

SendDatExecute ==
    /\ Exchange("dat_execute", ExecuteRequest, {0})
    /\ UNCHANGED <<zip, dat, bin, mtu, max_size, prev_chunk_crc, chunk_idx, build, device>>

(***************************************************************************)
(* send_bin.                                                               *)
(***************************************************************************)
\* select_object_data, max_size, and the start of the for loop
SendBinSelect ==
    /\ pc = "bin_select"
    /\ \E b \in Behaviours(SelectRequest("Data"), MaxSizes) :
         LET r == request_response(SelectRequest("Data"), b)
         IN /\ log' = log \o r.events
            /\ IF ~r.res.ok
               THEN Fail(r.res.err) /\ UNCHANGED <<max_size, prev_chunk_crc, chunk_idx>>
               ELSE /\ max_size' = r.res.val
                    /\ prev_chunk_crc' = InitialCrc(r.resume)
                    /\ chunk_idx' = 1
                    /\ \* image.chunks(0) panics
                       IF r.res.val = 0 THEN Fail("panic")
                       ELSE Goto(ForChunk(1, Len(Chunks(bin, r.res.val))))
    /\ UNCHANGED <<zip, dat, bin, mtu, build, device>>

create_data_object ==
    /\ Exchange("bin_create", CreateObjectRequest("Data", Len(CurChunk)), {0})
    /\ UNCHANGED <<zip, dat, bin, mtu, max_size, prev_chunk_crc, chunk_idx, build, device>>

SendBinStream ==
    /\ stream_object_data("bin_stream", CurChunk)
    /\ UNCHANGED <<zip, dat, bin, mtu, max_size, prev_chunk_crc, chunk_idx, device>>

\* send_bin: get_crc and check_crc(chunk, received_crc.crc, prev_chunk_crc)
SendBinCrc ==
    /\ pc = "bin_crc"
    /\ \E b \in Behaviours(CrcRequest, DeviceCrcs(ExpectedCrc(CurChunk, prev_chunk_crc), SentChunks)) :
         LET r == request_response(CrcRequest, b)
             c == check_crc(CurChunk, r.res.val, prev_chunk_crc)
         IN /\ log' = log \o r.events
            /\ IF ~r.res.ok THEN Fail(r.res.err) /\ prev_chunk_crc' = prev_chunk_crc
               ELSE IF ~c.ok THEN Fail("crc") /\ prev_chunk_crc' = prev_chunk_crc
               ELSE Goto(Flow("bin_crc")) /\ prev_chunk_crc' = c.val
    /\ UNCHANGED <<zip, dat, bin, mtu, max_size, chunk_idx, build, device>>

\* send_bin: execute, and the next iteration of the for loop
SendBinExecute ==
    /\ pc = "bin_execute"
    /\ \E b \in Behaviours(ExecuteRequest, {0}) :
         LET r == request_response(ExecuteRequest, b)
         IN /\ log' = log \o r.events
            /\ IF ~r.res.ok
               THEN Fail(r.res.err) /\ chunk_idx' = chunk_idx
               ELSE /\ chunk_idx' = chunk_idx + 1
                    /\ Goto(ForChunk(chunk_idx + 1, Len(Chunks(bin, max_size))))
    /\ UNCHANGED <<zip, dat, bin, mtu, max_size, prev_chunk_crc, build, device>>

Next ==
    \/ Start
    \/ NewFetchProtocolVersion
    \/ fetch_mtu
    \/ set_receipt_notification
    \/ RunSelectObjectCommand
    \/ RunFetchProtocolVersion
    \/ fetch_hardware_version
    \/ SendDatSelect
    \/ create_command_object
    \/ SendDatStream
    \/ SendDatCrc
    \/ SendDatExecute
    \/ SendBinSelect
    \/ create_data_object
    \/ SendBinStream
    \/ SendBinCrc
    \/ SendBinExecute

Spec == Init /\ [][Next]_vars

\* run() keeps running, and the cooperative device answers every request
SpecDevice == InitDevice /\ [][Next]_vars /\ WF_vars(Next)

(***************************************************************************)
(* Reading the stream log.                                                 *)
(***************************************************************************)
IsReq(e) == e.ev = "req"
IsReqOf(e, op) == e.ev = "req" /\ e.op = op
IsOkResp(e, op) == e.ev = "resp" /\ e.op = op /\ e.out = "ok"
\* an exchange that failed: a failed write, or a read or decode that failed
IsFailure(e) == e.ev = "wfail" \/ (e.ev = "resp" /\ e.out # "ok")

\* the requests written, in order
Requests == SelectSeq(log, IsReq)

\* the CreateObject request that opened the object event i belongs to
\* (0: none)
RECURSIVE LastCreate(_)
LastCreate(i) ==
    IF i = 0 THEN 0
    ELSE IF IsReqOf(log[i], "Create") THEN i
    ELSE LastCreate(i - 1)

KindAt(i) == IF LastCreate(i) = 0 THEN "-" ELSE log[LastCreate(i)].kind

RECURSIVE ConcatWrites(_, _)
ConcatWrites(from, to) ==
    IF from > to THEN <<>>
    ELSE (IF IsReqOf(log[from], "Write") THEN log[from].data ELSE <<>>)
         \o ConcatWrites(from + 1, to)

\* the bytes written into the object event i belongs to, up to event i
ObjectData(i) == ConcatWrites(LastCreate(i) + 1, i)

\* the CRC the device reported, and the session accepted, for the Data
\* object before the one event i belongs to (zero for the first)
RECURSIVE LastDataCrc(_)
LastDataCrc(j) ==
    IF j <= 0 THEN Zero32
    ELSE IF IsOkResp(log[j], "GetCrc") /\ KindAt(j) = "Data" THEN log[j].val
    ELSE LastDataCrc(j - 1)

PrevVerifiedCrc(i) == LastDataCrc(LastCreate(i) - 1)

\* the seed of the CRC of the object event i belongs to
SeedAt(i) == IF KindAt(i) = "Command" THEN Zero32 ELSE PrevVerifiedCrc(i)

(***************************************************************************)
(* C1: once an exchange of run() has failed (write error, timeout, framing *)
(* error, opcode mismatch, rejection) or a CRC comparison has failed, no   *)
(* further request is written and run() ends with an error.                *)
(***************************************************************************)
C1_FailureIsFatal ==
    /\ \A i \in 1..Len(log) :
         IsFailure(log[i]) => \A j \in (i + 1)..Len(log) : ~IsReq(log[j])
    /\ (pc = "done" /\ \E i \in 1..Len(log) : IsFailure(log[i])) => err # "none"
    /\ err = "crc" => pc = "done" /\ IsOkResp(log[Len(log)], "GetCrc")

(***************************************************************************)
(* C2: when the device answers the first protocol-version query with a     *)
(* version other than 1, the session ends with the version error and that  *)
(* query is the only request ever written.                                 *)
(***************************************************************************)
C2_VersionGate ==
    (/\ Len(log) >= 2
     /\ IsOkResp(log[2], "ProtocolVersion")
     /\ log[2].val # PROTOCOL_VERSION)
    => /\ pc = "done" /\ err = "version"
       /\ Len(Requests) = 1
       /\ Requests[1].op = "ProtocolVersion"

C2_Witness ==
    /\ pc = "done" /\ err = "version"
    /\ Len(log) = 2 /\ IsOkResp(log[2], "ProtocolVersion") /\ log[2].val = 2

(***************************************************************************)
(* C3: an Execute request directly follows a GetCrc answer, and a GetCrc   *)
(* answer the session goes on from carries the CRC32 of the bytes written  *)
(* into the object, seeded with 0 for the Command object and with the CRC  *)
(* verified for the previous Data object for a Data object; after any      *)
(* other CRC answer nothing more happens on the stream.                    *)
(***************************************************************************)
C3_ExecuteAfterCrc ==
    /\ \A i \in 1..Len(log) :
         IsReqOf(log[i], "Execute") => i > 1 /\ IsOkResp(log[i - 1], "GetCrc")
    /\ \A i \in 1..Len(log) :
         IsOkResp(log[i], "GetCrc") =>
            \/ log[i].val = Crc32(ObjectData(i), SeedAt(i))
            \/ i = Len(log) /\ pc = "done" /\ err = "crc"

C3_Witness ==
    /\ pc = "done" /\ err = "none"
    /\ Cardinality({i \in 1..Len(log) : IsReqOf(log[i], "Execute") /\ KindAt(i) = "Data"}) >= 2

(***************************************************************************)
(* C4: the CRC send_bin expects after chunk k, seeded with the CRC         *)
(* verified for chunk k - 1, is the CRC32 from seed 0 of chunks 1..k       *)
(* concatenated; after the last chunk it is the CRC32 of the padded image. *)
(***************************************************************************)
RECURSIVE ConcatChunks(_, _)
ConcatChunks(chunks, k) ==
    IF k = 0 THEN <<>> ELSE ConcatChunks(chunks, k - 1) \o chunks[k]

C4_CrcChaining ==
    /\ pc = "bin_crc" =>
         ExpectedCrc(CurChunk, prev_chunk_crc)
           = Crc32(ConcatChunks(Chunks(bin, max_size), chunk_idx), Zero32)
    /\ pc = "bin_execute" =>
         prev_chunk_crc = Crc32(ConcatChunks(Chunks(bin, max_size), chunk_idx), Zero32)
    /\ (pc = "done" /\ err = "none") => prev_chunk_crc = Crc32(bin, Zero32)

C4_Witness ==
    /\ pc = "bin_execute" /\ chunk_idx >= 2
    /\ chunk_idx = Len(Chunks(bin, max_size))
    /\ prev_chunk_crc # Crc32(CurChunk, Zero32)

(***************************************************************************)
(* C5: on the wire every object is CreateObject, WriteChunk*, GetCrc,      *)
(* Execute with nothing interleaved; a CreateObject follows a Select of    *)
(* its kind or, for Data, the Execute of the Data object before; and       *)
(* Select(Data) is written at most once, exactly once when a Data object   *)
(* is created.                                                             *)
(***************************************************************************)
DataSelects == {i \in 1..Len(log) : IsReqOf(log[i], "Select") /\ log[i].kind = "Data"}

C5_ObjectOrder ==
    LET R == Requests
    IN /\ \A i \in 1..Len(R) :
            /\ R[i].op \in {"Write", "GetCrc"} => i > 1 /\ R[i - 1].op \in {"Create", "Write"}
            /\ R[i].op = "Execute" => i > 1 /\ R[i - 1].op = "GetCrc"
            /\ R[i].op = "Create" =>
                 /\ i > 1
                 /\ \/ R[i - 1].op = "Select" /\ R[i - 1].kind = R[i].kind
                    \/ /\ R[i].kind = "Data" /\ R[i - 1].op = "Execute"
                       /\ \E j \in 1..(i - 1) :
                            /\ R[j].op = "Create" /\ R[j].kind = "Data"
                            /\ \A m \in (j + 1)..(i - 1) : R[m].op # "Create"
            /\ (i < Len(R) /\ R[i].op \in {"Create", "Write"}) => R[i + 1].op \in {"Write", "GetCrc"}
            /\ (i < Len(R) /\ R[i].op = "GetCrc") => R[i + 1].op = "Execute"
       /\ Cardinality(DataSelects) <= 1
       /\ (\E i \in 1..Len(R) : R[i].op = "Create" /\ R[i].kind = "Data")
            => Cardinality(DataSelects) = 1

C5_Witness ==
    /\ pc = "done" /\ err = "none"
    /\ Cardinality({i \in 1..Len(log) : IsReqOf(log[i], "Create") /\ log[i].kind = "Data"}) >= 2
    /\ \E i \in 1..Len(log) : IsReqOf(log[i], "Write") /\ KindAt(i) = "Command"

(***************************************************************************)
(* C6: before the first request that names the Data object (Select or      *)
(* CreateObject), the Command object has been created with the length of   *)
(* the init packet, the init packet has been written into it, the device   *)
(* has reported its CRC32 from seed 0, and Execute has been answered with  *)
(* success.                                                                *)
(***************************************************************************)
DataRequests == {i \in 1..Len(log) : IsReq(log[i]) /\ log[i].kind = "Data"}

CommandExecuted(j) ==
    /\ IsOkResp(log[j], "Execute")
    /\ KindAt(j) = "Command"
    /\ log[LastCreate(j)].size = Len(dat)
    /\ IsOkResp(log[LastCreate(j) + 1], "Create")
    /\ ObjectData(j) = dat
    /\ IsOkResp(log[j - 2], "GetCrc")
    /\ log[j - 2].val = Crc32(dat, Zero32)

C6_InitPacketFirst ==
    DataRequests # {} =>
       \E j \in 1..((CHOOSE i \in DataRequests : \A k \in DataRequests : i <= k) - 1) :
          CommandExecuted(j)

C6_Witness ==
    /\ pc = "bin_create"
    /\ Len(dat) > 0
    /\ DataRequests # {}

(***************************************************************************)
(* C7: every CreateObject(Data, size) has 1 <= size <= max_size, with      *)
(* max_size as the device reported it; when GetCrc is sent for a Data      *)
(* object, size bytes have been written into it; and after a successful    *)
(* transfer the sizes sum to the length of the padded image and the bytes  *)
(* written into the Data objects, in order, are the padded image.          *)
(***************************************************************************)
DataCreates == {i \in 1..Len(log) : IsReqOf(log[i], "Create") /\ log[i].kind = "Data"}

\* max_size as the device reported it in its Select(Data) response
ReportedMaxSize == log[(CHOOSE i \in DataSelects : TRUE) + 1].val

RECURSIVE SumSizes(_)
SumSizes(S) ==
    IF S = {} THEN 0
    ELSE LET i == CHOOSE x \in S : TRUE IN log[i].size + SumSizes(S \ {i})

RECURSIVE DataWrites(_)
DataWrites(i) ==
    IF i > Len(log) THEN <<>>
    ELSE (IF IsReqOf(log[i], "Write") /\ KindAt(i) = "Data" THEN log[i].data ELSE <<>>)
         \o DataWrites(i + 1)

C7_DataObjectSizing ==
    /\ \A i \in DataCreates : 1 <= log[i].size /\ log[i].size <= ReportedMaxSize
    /\ \A g \in 1..Len(log) :
         (IsReqOf(log[g], "GetCrc") /\ KindAt(g) = "Data")
            => Len(ObjectData(g)) = log[LastCreate(g)].size
    /\ (pc = "done" /\ err = "none") =>
         /\ SumSizes(DataCreates) = Len(bin)
         /\ DataWrites(1) = bin

C7_Witness ==
    /\ pc = "done" /\ err = "none"
    /\ \E i, j \in DataCreates : log[i].size = 3 /\ log[j].size = 1

(***************************************************************************)
(* C8: the WriteChunk requests of one stream_object_data directly follow   *)
(* the answer to CreateObject and each other, with no read of the stream   *)
(* between them or after them; their payloads, in order, are a prefix of   *)
(* the buffer, and the whole buffer once the next request is written.      *)
(***************************************************************************)
\* the buffer send_dat or send_bin passes to stream_object_data for the
\* object opened by the CreateObject request at c
BufferOf(c) ==
    IF log[c].kind = "Command" THEN dat
    ELSE LET start == SumSizes({i \in DataCreates : i < c})
         IN SubSeq(bin, start + 1, start + log[c].size)

IsPrefix(a, b) == Len(a) <= Len(b) /\ a = SubSeq(b, 1, Len(a))

C8_StreamPreservesBuffer ==
    \A i \in 1..Len(log) :
       /\ IsReqOf(log[i], "Write") =>
            /\ i > 1
            /\ IsReqOf(log[i - 1], "Write") \/ IsOkResp(log[i - 1], "Create")
            /\ i < Len(log) => log[i + 1].ev # "resp"
            /\ IsPrefix(ObjectData(i), BufferOf(LastCreate(i)))
       /\ IsReqOf(log[i], "GetCrc") =>
            /\ ObjectData(i) = BufferOf(LastCreate(i))
            /\ \A m \in (LastCreate(i) + 2)..(i - 1) : IsReqOf(log[m], "Write")

C8_Witness ==
    \E i \in 1..Len(log) :
       /\ IsReqOf(log[i], "GetCrc")
       /\ i - LastCreate(i) - 2 >= 3
       /\ \E a, b \in (LastCreate(i) + 2)..(i - 1) : log[a].data # log[b].data

(***************************************************************************)
(* C9, as claimed: every fragment written is non-empty and at most         *)
(* (mtu - 1) / 2 - 1 bytes in u16 arithmetic, and that bound is 31 bytes   *)
(* for MTU 64.                                                             *)
(***************************************************************************)
\* the bound as the claim writes it
ClaimedBound(m) == ((((m - 1) % U16) \div 2) - 1) % U16

FragmentsWithin(bound) ==
    \A i \in 1..Len(log) :
       IsReqOf(log[i], "Write") => 1 <= Len(log[i].data) /\ Len(log[i].data) <= bound

C9_FragmentBound ==
    /\ FragmentsWithin(ClaimedBound(mtu))
    /\ (mtu = 64 /\ pc = "dat_stream") => MaxChunkSize(mtu) = 31

(***************************************************************************)
(* C9, amended: every fragment written is non-empty and at most            *)
(* (mtu - 1) / 2 - 1 bytes in wrapping u16 arithmetic, which is 30 bytes   *)
(* for MTU 64; stream_object_data aborts only for an MTU below 5, and for  *)
(* MTU 3 or 4, where the bound is 0, no fragment is ever written.          *)
(***************************************************************************)
C9_FragmentBoundAmended ==
    /\ FragmentsWithin(ClaimedBound(mtu))
    /\ (mtu = 64 /\ pc = "dat_stream") => MaxChunkSize(mtu) = 30
    /\ (pc = "done" /\ err = "panic" /\ IsOkResp(log[Len(log)], "Create")) => mtu < 5
    /\ mtu \in {3, 4} => \A i \in 1..Len(log) : ~IsReqOf(log[i], "Write")

C9_Witness ==
    /\ mtu = 7
    /\ \E i \in 2..Len(log) :
          /\ IsReqOf(log[i], "Write") /\ Len(log[i].data) = 1
          /\ IsReqOf(log[i - 1], "Write") /\ Len(log[i - 1].data) = 2

(***************************************************************************)
(* C10: for a negotiated MTU of 5 or more, the bytes written for one       *)
(* WriteChunk request (the opcode and the fragment, SLIP-encoded, with the *)
(* terminator) are at most MTU, also when every byte is escaped.           *)
(***************************************************************************)
C10_FrameFitsMtu ==
    mtu >= 5 =>
       \A i \in 1..Len(log) :
          IsReqOf(log[i], "Write") =>
             /\ Len(encode_frame(<<WRITE_OPCODE>> \o log[i].data)) <= mtu
             /\ 2 * (1 + Len(log[i].data)) + 1 <= mtu

C10_Witness ==
    /\ mtu = 5
    /\ \E i \in 1..Len(log) :
          /\ IsReqOf(log[i], "Write")
          /\ log[i].data = <<SLIP_END>>
          /\ Len(encode_frame(<<WRITE_OPCODE>> \o log[i].data)) = 4

(***************************************************************************)
(* C11: the image send_bin is given has the smallest length that is a      *)
(* multiple of 4 and at least the length L of the image in the archive;    *)
(* its first L bytes are that image and every byte after them is 0xFF; an  *)
(* image whose length is a multiple of 4 is unchanged.                     *)
(***************************************************************************)
InSendBin ==
    \/ pc \in {"bin_select", "bin_create", "bin_stream", "bin_crc", "bin_execute"}
    \/ pc = "done" /\ DataSelects # {}

C11_Padding ==
    InSendBin =>
       LET L == Len(zip.bin)
       IN /\ Len(bin) % 4 = 0
          /\ L <= Len(bin) /\ Len(bin) < L + 4
          /\ SubSeq(bin, 1, L) = zip.bin
          /\ \A i \in (L + 1)..Len(bin) : bin[i] = 255
          /\ L % 4 = 0 => bin = zip.bin

C11_Witness ==
    /\ pc = "bin_select"
    /\ Len(zip.bin) % 4 = 1
    /\ Len(bin) = Len(zip.bin) + 3

(***************************************************************************)
(* C12: the first request of a session is the protocol-version query and   *)
(* the second the MTU query; before any WriteChunk request,                *)
(* SetReceiptNotification(0) has been answered with success; and the MTU   *)
(* of the connection is the value the device reported, from then on.       *)
(***************************************************************************)
C12_ConnectOrdering ==
    /\ Len(Requests) >= 1 => Requests[1].op = "ProtocolVersion"
    /\ Len(Requests) >= 2 => Requests[2].op = "GetMtu"
    /\ \A i \in 1..Len(log) :
         IsReqOf(log[i], "Write") =>
            \E j \in 1..(i - 1) : IsOkResp(log[j], "SetPrn") /\ log[j].size = 0
    /\ mtu = IF Len(log) >= 4 /\ IsOkResp(log[4], "GetMtu") THEN log[4].val ELSE 0

C12_Witness ==
    /\ mtu = 7
    /\ pc = "done" /\ err = "none"
    /\ \E i \in 1..Len(log) : IsReqOf(log[i], "Write")

(***************************************************************************)
(* C13, as claimed: the requests of a session are the protocol-version     *)
(* query, the MTU query, SetReceiptNotification(0) and then at once the    *)
(* init-packet transfer (Select(Command), CreateObject); the               *)
(* protocol-version query is written once.                                 *)
(***************************************************************************)
\* the requests run() tried to write, whether or not the write succeeded
Attempts == SelectSeq(log, LAMBDA e : e.ev \in {"req", "wfail"})

OpsOf(seq) == [i \in 1..Len(seq) |-> seq[i].op]

ConnectOps == <<"ProtocolVersion", "GetMtu", "SetPrn">>

C13_LinearSession ==
    LET ops == OpsOf(Attempts)
    IN /\ IsPrefix(SubSeq(ops, 1, Min(5, Len(ops))), ConnectOps \o <<"Select", "Create">>)
       /\ Cardinality({i \in 1..Len(ops) : ops[i] = "ProtocolVersion"}) <= 1

(***************************************************************************)
(* C13, amended: the requests of a session are the protocol-version query, *)
(* the MTU query and SetReceiptNotification(0); then Select(Command), a    *)
(* second protocol-version query and the hardware-version query; then the  *)
(* init-packet transfer (Select(Command), CreateObject(Command)), and the  *)
(* first request for the Data object is Select(Data), after it. The        *)
(* protocol-version query is written twice in a session that gets to the   *)
(* transfer, and never more.                                               *)
(***************************************************************************)
RunOps == ConnectOps \o <<"Select", "ProtocolVersion", "HardwareVersion", "Select", "Create">>

C13_LinearSessionAmended ==
    LET A == Attempts
        ops == OpsOf(A)
    IN /\ IsPrefix(SubSeq(ops, 1, Min(8, Len(ops))), RunOps)
       /\ \A i \in 1..Min(8, Len(A)) :
            /\ i \in {4, 7, 8} => A[i].kind = "Command"
            /\ i = 3 => A[i].size = 0
       /\ \A i \in 9..Len(A) : ops[i] \notin {"ProtocolVersion", "GetMtu", "SetPrn", "HardwareVersion"}
       /\ \A i \in 9..Len(A) :
            A[i].kind = "Data" =>
               \E j \in 9..i : A[j].op = "Select" /\ A[j].kind = "Data"
                                  /\ \A k \in 9..(j - 1) : A[k].kind # "Data"
       /\ Len(A) >= 7 => Cardinality({i \in 1..Len(ops) : ops[i] = "ProtocolVersion"}) = 2

C13_Witness ==
    /\ pc = "done" /\ err = "none"
    /\ Len(Attempts) > 8
    /\ DataCreates # {}

(***************************************************************************)
(* C14: on a working port, with a device that reports protocol version 1,  *)
(* an MTU >= 5 and a max_size >= 1, answers every request with Success and *)
(* reports the CRC32 of the bytes it has received, run() eventually        *)
(* returns success, having sent the init packet as one Command object (in  *)
(* one fragment where it fits the fragment bound) and the padded image as  *)
(* ceil(padded_len / max_size) Data objects, each one CRC-verified and     *)
(* executed.                                                               *)
(***************************************************************************)
CeilDiv(a, b) == (a + b - 1) \div b

CommandCreates == {i \in 1..Len(log) : IsReqOf(log[i], "Create") /\ log[i].kind = "Command"}

\* the object created at c was CRC-verified and then executed
VerifiedAndExecuted(c) ==
    \E j \in (c + 3)..Len(log) :
       /\ IsOkResp(log[j], "Execute") /\ LastCreate(j) = c
       /\ IsOkResp(log[j - 2], "GetCrc")
       /\ log[j - 2].val = Crc32(ObjectData(j - 2), SeedAt(j - 2))
       /\ Len(ObjectData(j)) = log[c].size

Completed ==
    /\ pc = "done" /\ err = "none"
    /\ Cardinality(CommandCreates) = 1
    /\ \A c \in CommandCreates : log[c].size = Len(dat)
    /\ Cardinality(DataCreates) = CeilDiv(Len(bin), max_size)
    /\ SumSizes(DataCreates) = Len(bin)
    /\ \A c \in CommandCreates \cup DataCreates : VerifiedAndExecuted(c)
    /\ (dat # <<>> /\ Len(dat) <= MaxChunkSize(mtu)) =>
          Cardinality({i \in 1..Len(log) :
                         IsReqOf(log[i], "Write") /\ KindAt(i) = "Command"}) = 1

C14_EndToEnd == <>Completed

C14_Witness ==
    /\ device = "cooperative"
    /\ Completed
    /\ mtu = 64 /\ dat # <<>>
    /\ max_size = 3 /\ Len(zip.bin) = 1
    /\ {log[c].size : c \in DataCreates} = {3, 1}

(***************************************************************************)
(* C15: when the device answers a CreateObject request (Command or Data)   *)
(* with a result code other than Success, nothing more is written to the   *)
(* stream, and run() ends with the error of that rejection.                *)
(***************************************************************************)
IsRejectedCreate(e) == e.ev = "resp" /\ e.op = "Create" /\ e.out = "rejected"

C15_RejectedCreate ==
    \A i \in 1..Len(log) :
       IsRejectedCreate(log[i]) => i = Len(log) /\ pc = "done" /\ err = "rejected"

C15_Witness ==
    /\ pc = "done" /\ err = "rejected"
    /\ IsRejectedCreate(log[Len(log)]) /\ log[Len(log)].kind = "Data"
    /\ Cardinality(DataCreates) = 2

(***************************************************************************)
(* C16: no request is written while the response to an earlier request is  *)
(* outstanding: once the read of a response has timed out, no further      *)
(* request is written to the stream.                                       *)
(***************************************************************************)
C16_HalfDuplex ==
    \A i \in 1..Len(log) :
       (log[i].ev = "resp" /\ log[i].out = "timeout") =>
          \A j \in (i + 1)..Len(log) : ~IsReq(log[j])

(***************************************************************************)
(* C17: request_response decodes a frame against the request it has just   *)
(* written; a response whose echoed opcode is not that of this request     *)
(* yields the desync error and never a decoded response, also after        *)
(* WriteChunk requests that were sent without awaiting a response.         *)
(***************************************************************************)
C17_OpcodeMatching ==
    \A i \in 1..Len(log) :
       log[i].ev = "resp" =>
          /\ i > 1 /\ IsReqOf(log[i - 1], log[i].op)
          /\ log[i].out = "ok" => log[i].echo = log[i].op
          /\ log[i].echo \notin {"-", log[i].op} => log[i].out = "desync"

C17_Witness ==
    \E i \in 3..Len(log) :
       /\ log[i].ev = "resp" /\ log[i].op = "GetCrc"
       /\ log[i].echo = "Execute" /\ log[i].out = "desync"
       /\ IsReqOf(log[i - 2], "Write")
       /\ pc = "done" /\ err = "desync"

(***************************************************************************)
(* C18: when the read of the response times out, the error run() returns   *)
(* is of a kind the caller can tell from the error of a framing failure at *)
(* the same step.                                                          *)
(***************************************************************************)
C18_TimeoutDistinct ==
    (pc = "done" /\ err = "timeout") => ErrorType(err) # ErrorType("framing")

(***************************************************************************)
(* C19: whatever max_size the device reports in its Select(Data) answer    *)
(* (0 included) and whatever the image (the empty one included), send_bin  *)
(* does not panic; for the empty image it returns success once Select(Data)*)
(* is answered.                                                            *)
(***************************************************************************)
DataSelected ==
    /\ Len(log) > 0
    /\ IsOkResp(log[Len(log)], "Select") /\ log[Len(log)].kind = "Data"

C19_NoCrash ==
    /\ ~(pc = "done" /\ err = "panic" /\ DataSelected)
    /\ (pc = "done" /\ DataSelected /\ bin = <<>>) => err = "none"

(***************************************************************************)
(* C20: the requests of send_dat and send_bin are a function of the init   *)
(* packet, the padded image, the MTU and max_size: whatever offset and crc *)
(* the device reports in its Select answers, and whatever offset in its    *)
(* CRC answers, every object is created and the CRC chain of the image     *)
(* starts from 0.                                                          *)
(***************************************************************************)
\* the requests that transfer one object holding data
ObjectRequests(kind, data, m) ==
    LET frs == Chunks(data, MaxChunkSize(m))
    IN <<CreateObjectRequest(kind, Len(data))>>
       \o [i \in 1..Len(frs) |-> WriteRequest(frs[i])]
       \o <<CrcRequest, ExecuteRequest>>

RECURSIVE ChunkRequests(_, _)
ChunkRequests(chunks, m) ==
    IF chunks = <<>> THEN <<>>
    ELSE ObjectRequests("Data", Head(chunks), m) \o ChunkRequests(Tail(chunks), m)

\* the requests of a fresh transfer
TransferRequests(d, b, m, ms) ==
    <<SelectRequest("Command")>> \o ObjectRequests("Command", d, m)
    \o <<SelectRequest("Data")>> \o ChunkRequests(Chunks(b, ms), m)

\* the requests written by send_dat and send_bin
SentByTransfer ==
    LET n == Len(RunOps) - 2
    IN [i \in 1..(Len(Requests) - n) |->
          Request(Requests[i + n].op, Requests[i + n].kind,
                  Requests[i + n].size, Requests[i + n].data)]

Resumable(e) == e.ev = "resp" /\ e.resume # Fresh

C20_NoResume ==
    LET T == TransferRequests(dat, bin, mtu, IF max_size = 0 THEN 1 ELSE max_size)
    IN /\ mtu >= 5 => IsPrefix(SentByTransfer, T)
       /\ (pc = "done" /\ err = "none") => SentByTransfer = T
       /\ (chunk_idx = 1 /\ pc \in {"bin_create", "bin_stream", "bin_crc"}) =>
             prev_chunk_crc = Zero32

C20_Witness ==
    /\ pc = "done" /\ err = "none"
    /\ Cardinality(DataCreates) >= 2
    /\ \E i \in 1..Len(log) :
         Resumable(log[i]) /\ log[i].op = "Select" /\ log[i].kind = "Command"
    /\ \E i \in 1..Len(log) :
         /\ Resumable(log[i]) /\ log[i].op = "Select" /\ log[i].kind = "Data"
         /\ log[i].resume.crc # Zero32
    /\ \E i \in 1..Len(log) : Resumable(log[i]) /\ log[i].op = "GetCrc"

====
